---- MODULE Spec2Model ----
(***************************************************************************)
(* A model of minimal-sui-types: the address / key-scheme layer            *)
(* (base_types.rs, crypto.rs), the transaction data model (transaction.rs) *)
(* and the generic envelope (message_envelope.rs).                         *)
(*                                                                         *)
(* The library is a set of pure constructors, encoders and decoders plus   *)
(* one container, Envelope.  Pure functions are operators, computed as the *)
(* code computes them.  The state machine is a caller of the library: it   *)
(* holds one envelope, the record of the last completed call (`last`) and, *)
(* when the caller feeds a result into a second call, the record of the    *)
(* call before it (`prev`).                                                *)
(*                                                                         *)
(* Bytes are 0..255, a byte buffer is a sequence of bytes, a string is a   *)
(* sequence of one-character strings.  A Result is [ok |-> TRUE, val |-> v]*)
(* or [ok |-> FALSE, err |-> message].                                     *)
(***************************************************************************)
EXTENDS Integers, Sequences, FiniteSets, TLC

VARIABLES last, prev, envelope, built

vars == <<last, prev, envelope, built>>

(***************************************************************************)
(* Bounds of the model.                                                    *)
(***************************************************************************)
\* Buffers and strings are taken with every length 0..MaxShortLen, and with
\* every length within LenSlack of the lengths the code treats specially.
MaxShortLen == 2
LenSlack == 2

(***************************************************************************)
(* Program constants.                                                      *)
(***************************************************************************)
\* pub struct SuiAddress([u8; 32])
ADDRESS_LENGTH == 32
\* PublicKey::Ed25519([u8; 32])
ED25519_PUBLIC_KEY_LENGTH == 32
\* PublicKey::Secp256k1([u8; 33]), PublicKey::Secp256r1([u8; 33])
SECP256_PUBLIC_KEY_LENGTH == 33
\* pub struct Digest([u8; 32])
DIGEST_LENGTH == 32
\* u8: a byte is one of 0 .. U8_MODULUS - 1
U8_MODULUS == 256

(***************************************************************************)
(* Generic helpers.                                                        *)
(***************************************************************************)
Ok(v) == [ok |-> TRUE, val |-> v]

Err(msg) == [ok |-> FALSE, err |-> msg]

Min(a, b) == IF a < b THEN a ELSE b

\* [0u8; n]
Zeros(n) == [i \in 1..n |-> 0]

\* slice.get(1..): None on the empty slice, Some(rest) otherwise (the range
\* 1.. is in bounds as soon as 1 <= len).
SliceFrom1(bytes) ==
    IF Len(bytes) < 1 THEN [some |-> FALSE]
    ELSE [some |-> TRUE, val |-> SubSeq(bytes, 2, Len(bytes))]

\* dst[..len].copy_from_slice(&src[..len]) on a zeroed dst of n bytes
CopyPrefix(n, src) ==
    LET len == Min(Len(src), n)
    IN  [i \in 1..n |-> IF i <= len THEN src[i] ELSE 0]

(***************************************************************************)
(* crypto.rs: signature schemes, public keys, key pairs.                   *)
(***************************************************************************)
SignatureSchemes == {"ED25519", "Secp256k1", "Secp256r1"}

KeyPairVariants == {"Ed25519", "Secp256k1", "Secp256r1"}

\* SignatureScheme::flag
SignatureScheme_flag(scheme) ==
    CASE scheme = "ED25519" -> 0
      [] scheme = "Secp256k1" -> 1
      [] scheme = "Secp256r1" -> 2

\* a from_flag_byte whose default arm yields a scheme instead of an error
SignatureScheme_from_flag_byte_DefaultEd25519(flag) ==
    CASE flag = 0 -> Ok("ED25519")
      [] flag = 1 -> Ok("Secp256k1")
      [] flag = 2 -> Ok("Secp256r1")
      [] OTHER -> Ok("ED25519")

\* SignatureScheme::from_flag_byte
SignatureScheme_from_flag_byte(flag) ==
    CASE flag = 0 -> Ok("ED25519")
      [] flag = 1 -> Ok("Secp256k1")
      [] flag = 2 -> Ok("Secp256r1")
      [] OTHER -> Err("Invalid signature scheme flag")

\* a public() that fills the public key from the private-key bytes
SuiKeyPair_public_FromPrivate(kp) ==
    CASE kp.variant = "Ed25519" ->
            [variant |-> "Ed25519", bytes |-> CopyPrefix(ED25519_PUBLIC_KEY_LENGTH, kp.kp)]
      [] kp.variant = "Secp256k1" ->
            [variant |-> "Secp256k1", bytes |-> CopyPrefix(SECP256_PUBLIC_KEY_LENGTH, kp.kp)]
      [] kp.variant = "Secp256r1" ->
            [variant |-> "Secp256r1", bytes |-> CopyPrefix(SECP256_PUBLIC_KEY_LENGTH, kp.kp)]

\* SuiKeyPair::public: an all-zero public key of the key pair's variant
SuiKeyPair_public(kp) ==
    CASE kp.variant = "Ed25519" ->
            [variant |-> "Ed25519", bytes |-> Zeros(ED25519_PUBLIC_KEY_LENGTH)]
      [] kp.variant = "Secp256k1" ->
            [variant |-> "Secp256k1", bytes |-> Zeros(SECP256_PUBLIC_KEY_LENGTH)]
      [] kp.variant = "Secp256r1" ->
            [variant |-> "Secp256r1", bytes |-> Zeros(SECP256_PUBLIC_KEY_LENGTH)]

\* PublicKey::flag
PublicKey_flag(pk) ==
    CASE pk.variant = "Ed25519" -> SignatureScheme_flag("ED25519")
      [] pk.variant = "Secp256k1" -> SignatureScheme_flag("Secp256k1")
      [] pk.variant = "Secp256r1" -> SignatureScheme_flag("Secp256r1")

\* SuiKeyPair::to_bytes: push the flag, then extend by the key bytes
SuiKeyPair_to_bytes(kp) ==
    <<PublicKey_flag(SuiKeyPair_public(kp))>> \o kp.kp

\* a from_bytes whose Secp256r1 arm builds the Secp256k1 variant
SuiKeyPair_from_bytes_SameSecpArm(bytes) ==
    IF Len(bytes) = 0 THEN Err("Invalid length")
    ELSE LET scheme == SignatureScheme_from_flag_byte(bytes[1])
             rest == SliceFrom1(bytes)
         IN  IF ~scheme.ok THEN Err("Invalid bytes")
             ELSE IF ~rest.some THEN Err("Invalid length")
             ELSE CASE scheme.val = "ED25519" ->
                         Ok([variant |-> "Ed25519", kp |-> rest.val])
                    [] scheme.val = "Secp256k1" ->
                         Ok([variant |-> "Secp256k1", kp |-> rest.val])
                    [] scheme.val = "Secp256r1" ->
                         Ok([variant |-> "Secp256k1", kp |-> rest.val])

\* SuiKeyPair::from_bytes
SuiKeyPair_from_bytes(bytes) ==
    IF Len(bytes) = 0 THEN Err("Invalid length")
    ELSE LET scheme == SignatureScheme_from_flag_byte(bytes[1])
             rest == SliceFrom1(bytes)
         IN  IF ~scheme.ok THEN Err("Invalid bytes")
             ELSE IF ~rest.some THEN Err("Invalid length")
             ELSE CASE scheme.val = "ED25519" ->
                         Ok([variant |-> "Ed25519", kp |-> rest.val])
                    [] scheme.val = "Secp256k1" ->
                         Ok([variant |-> "Secp256k1", kp |-> rest.val])
                    [] scheme.val = "Secp256r1" ->
                         Ok([variant |-> "Secp256r1", kp |-> rest.val])

(***************************************************************************)
(* The hex crate, as base_types.rs uses it.                                *)
(***************************************************************************)
\* hex::encode's alphabet: b"0123456789abcdef"
HEX_CHARS_LOWER ==
    <<"0", "1", "2", "3", "4", "5", "6", "7", "8", "9", "a", "b", "c", "d", "e", "f">>

\* hex::encode: two lowercase digits per byte, high nibble first
RECURSIVE HexEncode(_)
HexEncode(bytes) ==
    IF bytes = <<>> THEN <<>>
    ELSE <<HEX_CHARS_LOWER[(Head(bytes) \div 16) + 1],
           HEX_CHARS_LOWER[(Head(bytes) % 16) + 1]>> \o HexEncode(Tail(bytes))

\* hex's val(): the value of one digit, either case; -1 stands for
\* FromHexError::InvalidHexCharacter
HexVal(c) ==
    CASE c = "0" -> 0  [] c = "1" -> 1  [] c = "2" -> 2  [] c = "3" -> 3
      [] c = "4" -> 4  [] c = "5" -> 5  [] c = "6" -> 6  [] c = "7" -> 7
      [] c = "8" -> 8  [] c = "9" -> 9
      [] c = "a" -> 10 [] c = "b" -> 11 [] c = "c" -> 12
      [] c = "d" -> 13 [] c = "e" -> 14 [] c = "f" -> 15
      [] c = "A" -> 10 [] c = "B" -> 11 [] c = "C" -> 12
      [] c = "D" -> 13 [] c = "E" -> 14 [] c = "F" -> 15
      [] OTHER -> -1

\* hex::decode: OddLength on an odd number of characters, otherwise one byte
\* per pair of digits, InvalidHexCharacter on the first character that is no
\* digit
HexDecode(s) ==
    IF Len(s) % 2 # 0 THEN Err("OddLength")
    ELSE IF \E i \in 1..Len(s) : HexVal(s[i]) < 0 THEN Err("InvalidHexCharacter")
    ELSE Ok([i \in 1..(Len(s) \div 2) |->
                16 * HexVal(s[2 * i - 1]) + HexVal(s[2 * i])])

(***************************************************************************)
(* base_types.rs: SuiAddress.                                              *)
(***************************************************************************)
\* SuiAddress::new
SuiAddress_new(address) == address

\* SuiAddress::ZERO
SuiAddress_ZERO == Zeros(ADDRESS_LENGTH)

\* a to_hex_literal that leaves out the "0x"
SuiAddress_to_hex_literal_NoPrefix(address) == HexEncode(address)

\* SuiAddress::to_hex_literal: format!("0x{}", hex::encode(self.0))
SuiAddress_to_hex_literal(address) == <<"0", "x">> \o HexEncode(address)

\* SuiAddress::to_string
SuiAddress_to_string(address) == SuiAddress_to_hex_literal(address)

\* impl Display for SuiAddress: write!(f, "{}", self.to_hex_literal())
SuiAddress_fmt(address) == SuiAddress_to_hex_literal(address)

\* str::strip_prefix("0x").unwrap_or(s): one leading "0x" is removed
StripPrefix0x(s) ==
    IF Len(s) >= 2 /\ s[1] = "0" /\ s[2] = "x" THEN SubSeq(s, 3, Len(s)) ELSE s

\* a from_str that does not strip the prefix
SuiAddress_from_str_NoStrip(s) ==
    LET bytes == HexDecode(s)
    IN  IF ~bytes.ok THEN Err(bytes.err)
        ELSE IF Len(bytes.val) # ADDRESS_LENGTH THEN Err("Address must be 32 bytes")
        ELSE Ok(CopyPrefix(ADDRESS_LENGTH, bytes.val))

\* a from_str that refuses only fewer than 32 bytes and keeps the first 32
SuiAddress_from_str_AtLeast32(s) ==
    LET stripped == StripPrefix0x(s)
        bytes == HexDecode(stripped)
    IN  IF ~bytes.ok THEN Err(bytes.err)
        ELSE IF Len(bytes.val) < ADDRESS_LENGTH THEN Err("Address must be 32 bytes")
        ELSE Ok(CopyPrefix(ADDRESS_LENGTH, bytes.val))

\* impl FromStr for SuiAddress
SuiAddress_from_str(s) ==
    LET stripped == StripPrefix0x(s)
        bytes == HexDecode(stripped)
    IN  IF ~bytes.ok THEN Err(bytes.err)
        ELSE IF Len(bytes.val) # ADDRESS_LENGTH THEN Err("Address must be 32 bytes")
        ELSE Ok(CopyPrefix(ADDRESS_LENGTH, bytes.val))

\* a derivation whose Secp256k1 arm skips the key's first byte
SuiAddress_from_public_key_SkipFirst(pk) ==
    CASE pk.variant = "Ed25519" -> CopyPrefix(ADDRESS_LENGTH, pk.bytes)
      [] pk.variant = "Secp256k1" -> CopyPrefix(ADDRESS_LENGTH, Tail(pk.bytes))
      [] pk.variant = "Secp256r1" -> CopyPrefix(ADDRESS_LENGTH, pk.bytes)

\* impl From<&PublicKey> for SuiAddress: the three arms are the same code
SuiAddress_from_public_key(pk) ==
    CASE pk.variant = "Ed25519" -> CopyPrefix(ADDRESS_LENGTH, pk.bytes)
      [] pk.variant = "Secp256k1" -> CopyPrefix(ADDRESS_LENGTH, pk.bytes)
      [] pk.variant = "Secp256r1" -> CopyPrefix(ADDRESS_LENGTH, pk.bytes)

(***************************************************************************)
(* transaction.rs: the data model.  A struct is a record with the struct's *)
(* field names; an enum value is a record with a `variant` field.          *)
(***************************************************************************)
\* Digest::new
Digest_new(bytes) == bytes

\* ObjectID::new
ObjectID_new(address) == address

\* ObjectID::ZERO
ObjectID_ZERO == SuiAddress_ZERO

\* SequenceNumber::new
SequenceNumber_new(value) == value

\* ObjectDigest::new
ObjectDigest_new(digest) == digest

\* ObjectDigest::MIN
ObjectDigest_MIN == Digest_new(Zeros(DIGEST_LENGTH))

\* ObjectRef::new
ObjectRef_new(id, version, digest) ==
    [id |-> id, version |-> version, digest |-> digest]

\* ProgrammableTransaction::new
ProgrammableTransaction_new(inputs, commands) ==
    [inputs |-> inputs, commands |-> commands]

\* TransactionKind::new
TransactionKind_new(pt) == [variant |-> "ProgrammableTransaction", pt |-> pt]

\* CallArg::new_pure
CallArg_new_pure(data) == [variant |-> "Pure", data |-> data]

\* TransactionExpiration::new_none
TransactionExpiration_new_none == [variant |-> "None"]

\* TransactionExpiration::new_epoch
TransactionExpiration_new_epoch(epoch) == [variant |-> "Epoch", epoch |-> epoch]

\* a TransactionData::new with budget and price swapped
TransactionData_new_SwappedGas(kind, sender, gas_payment, gas_budget, gas_price) ==
    [kind |-> kind,
     sender |-> sender,
     gas_data |-> [price |-> gas_budget,
                   owner |-> sender,
                   payment |-> <<gas_payment>>,
                   budget |-> gas_price],
     expiration |-> [variant |-> "None"]]

\* TransactionData::new
TransactionData_new(kind, sender, gas_payment, gas_budget, gas_price) ==
    [kind |-> kind,
     sender |-> sender,
     gas_data |-> [price |-> gas_price,
                   owner |-> sender,
                   payment |-> <<gas_payment>>,
                   budget |-> gas_budget],
     expiration |-> [variant |-> "None"]]

\* TransactionData::new_with_gas_coins
TransactionData_new_with_gas_coins(kind, sender, gas_payment, gas_budget, gas_price) ==
    [kind |-> kind,
     sender |-> sender,
     gas_data |-> [price |-> gas_price,
                   owner |-> sender,
                   payment |-> gas_payment,
                   budget |-> gas_budget],
     expiration |-> [variant |-> "None"]]

\* Intent::new
Intent_new(scope) == [version |-> 0, scope |-> scope]

\* Intent::with_version
Intent_with_version(version, scope) == [version |-> version, scope |-> scope]

\* a sui_app that stamps version 1
Intent_sui_app_Version1(scope) == [version |-> 1, scope |-> scope]

\* Intent::sui_app
Intent_sui_app(scope) == [version |-> 0, scope |-> scope]

\* IntentMessage::new
IntentMessage_new(intent, value) == [intent |-> intent, value |-> value]

\* SenderSignedTransaction::new
SenderSignedTransaction_new(intent_message) == [intent_message |-> intent_message]

\* SenderSignedData::new
SenderSignedData_new(transactions) == [transactions |-> transactions]

\* impl Message for SenderSignedData: digest ignores self and returns
\* TransactionDigest::new([0u8; 32])
SenderSignedData_digest(self) == Digest_new(Zeros(DIGEST_LENGTH))

(***************************************************************************)
(* message_envelope.rs: Envelope<T, S>.                                    *)
(***************************************************************************)
\* Envelope::new_from_data_and_sig
Envelope_new_from_data_and_sig(data, sig) == [data |-> data, auth_signature |-> sig]

\* Envelope::data
Envelope_data(self) == self.data

\* Envelope::auth_signature
Envelope_auth_signature(self) == self.auth_signature

\* Envelope::into_data
Envelope_into_data(self) == self.data

\* Envelope::into_sig
Envelope_into_sig(self) == self.auth_signature

\* an into_data_and_sig that returns the pair in the other order
Envelope_into_data_and_sig_Swapped(self) == <<self.auth_signature, self.data>>

\* Envelope::into_data_and_sig
Envelope_into_data_and_sig(self) == <<self.data, self.auth_signature>>

(***************************************************************************)
(* The inputs the caller draws from.                                       *)
(***************************************************************************)
\* n bytes counting up from start, wrapping at 256: every position differs
Ramp(n, start) == [i \in 1..n |-> (start + i - 1) % U8_MODULUS]

\* n copies of a
Fill(n, a) == [i \in 1..n |-> a]

\* n copies of a, with b at position p
OneAt(n, a, b, p) == [i \in 1..n |-> IF i = p THEN b ELSE a]

RECURSIVE SeqsUpTo(_, _)
\* every sequence over S of length 0..n
SeqsUpTo(S, n) ==
    IF n = 0 THEN {<<>>}
    ELSE LET shorter == SeqsUpTo(S, n - 1)
         IN  shorter \cup {Append(q, x) : q \in {r \in shorter : Len(r) = n - 1}, x \in S}

ByteSamples == {0, 1, 3, 255}

\* Lengths of private-key bytes: short ones, and those around 32 and 33
KeyLens ==
    (0..MaxShortLen) \cup
    ((ED25519_PUBLIC_KEY_LENGTH - LenSlack)..(SECP256_PUBLIC_KEY_LENGTH + LenSlack))

KeyBytesInputs ==
    SeqsUpTo(ByteSamples, MaxShortLen)
    \cup {Ramp(n, st) : n \in KeyLens, st \in {0, 250}}
    \cup {Fill(n, a) : n \in KeyLens, a \in {0, 2}}

\* SuiKeyPair's variants hold a Vec<u8> of any length
KeyPairInputs == [variant : KeyPairVariants, kp : KeyBytesInputs]

\* buffers for from_bytes: empty, short over the samples, and any first byte
\* followed by key bytes
FlagSamples == {0, 1, 2, 3, 255}

BufferInputs ==
    SeqsUpTo(ByteSamples \cup {2}, MaxShortLen)
    \cup {<<f>> \o k : f \in FlagSamples, k \in KeyBytesInputs}

\* [u8; n] arrays
ArrayInputs(n) ==
    {Ramp(n, st) : st \in {0, 100, 240}}
    \cup {Fill(n, a) : a \in {0, 170, 255}}
    \cup {OneAt(n, 0, b, p) : b \in {1, 255}, p \in 1..n}

\* PublicKey's variants hold arrays of the variant's length
PublicKeyInputs ==
    [variant : {"Ed25519"}, bytes : ArrayInputs(ED25519_PUBLIC_KEY_LENGTH)]
    \cup [variant : {"Secp256k1", "Secp256r1"},
          bytes : ArrayInputs(SECP256_PUBLIC_KEY_LENGTH)]

AddressInputs == ArrayInputs(ADDRESS_LENGTH)

\* Lengths of hex text: short ones, and those around 64
HexLens ==
    (0..MaxShortLen) \cup
    ((2 * ADDRESS_LENGTH - LenSlack)..(2 * ADDRESS_LENGTH + LenSlack))

\* n characters cycling through hex digits of both cases
HexCycle == <<"0", "1", "9", "a", "f", "A", "F", "c", "7", "E", "b">>

HexRamp(n, start) == [i \in 1..n |-> HexCycle[((start + i) % Len(HexCycle)) + 1]]

HexDigitSamples == {"0", "f", "A"}

NonHexSamples == {"g", "x", "X", " "}

TextBodies ==
    {HexRamp(n, st) : n \in HexLens, st \in {0, 4}}
    \cup {Fill(n, c) : n \in HexLens, c \in HexDigitSamples}
    \cup UNION {{OneAt(n, "a", d, p) : d \in NonHexSamples, p \in {1, n}} :
                    n \in HexLens \ {0}}

TextPrefixes == {<<>>, <<"0", "x">>, <<"0", "X">>, <<"0", "x", "0", "x">>}

TextInputs == {pre \o body : pre \in TextPrefixes, body \in TextBodies}

SenderSamples == {SuiAddress_ZERO, Fill(ADDRESS_LENGTH, 170), Ramp(ADDRESS_LENGTH, 1)}

ObjectRefSamples ==
    {ObjectRef_new(ObjectID_ZERO, SequenceNumber_new(0), ObjectDigest_MIN),
     ObjectRef_new(ObjectID_new(Fill(ADDRESS_LENGTH, 170)), SequenceNumber_new(7),
                   ObjectDigest_new(Digest_new(Fill(DIGEST_LENGTH, 1))))}

KindSamples ==
    {TransactionKind_new(ProgrammableTransaction_new(<<>>, <<>>)),
     TransactionKind_new(ProgrammableTransaction_new(<<CallArg_new_pure(<<1>>)>>, <<>>))}

\* budgets and prices are drawn from the same amounts
GasAmounts == {1, 1000, 1001}

GasCoinLists == SeqsUpTo(ObjectRefSamples, MaxShortLen)

IntentScopes == {"TransactionData", "ProofOfPossession"}

\* version: u8 arguments of Intent::with_version
VersionSamples == {0, 1, 255}

\* one intent-wrapped transaction, as in the end-to-end scenario
Signed(intent, tx) == SenderSignedTransaction_new(IntentMessage_new(intent, tx))

DigestTxSamples ==
    {TransactionData_new(TransactionKind_new(ProgrammableTransaction_new(<<>>, <<>>)),
                         sender,
                         ObjectRef_new(ObjectID_ZERO, SequenceNumber_new(0), ObjectDigest_MIN),
                         budget, 1)
        : sender \in {SuiAddress_ZERO, Fill(ADDRESS_LENGTH, 170)}, budget \in {1000, 1001}}

SenderSignedDataInputs ==
    {SenderSignedData_new(txs) :
        txs \in SeqsUpTo({Signed(Intent_sui_app("TransactionData"), tx) : tx \in DigestTxSamples}, 1)
                \cup {<<Signed(Intent_with_version(1, "ProofOfPossession"), tx)>> : tx \in DigestTxSamples}
                \cup {<<Signed(Intent_sui_app("TransactionData"), tx),
                        Signed(Intent_sui_app("TransactionData"), tx)>> : tx \in DigestTxSamples}}

\* intents given to IntentMessage::new, of every version and scope above
IntentInputs == {Intent_with_version(v, scope) : v \in VersionSamples, scope \in IntentScopes}

\* Envelope<T, S> is generic: the data are two SenderSignedData values, the
\* auth info EmptySignInfo {} (the Transaction alias) or a signature
EnvelopeDataInputs ==
    {SenderSignedData_new(<<Signed(Intent_sui_app("TransactionData"), tx)>>) :
        tx \in {t \in DigestTxSamples : t.sender = SuiAddress_ZERO}}

EmptySignInfo == [kind |-> "EmptySignInfo", bytes |-> <<>>]

EnvelopeSigInputs == {EmptySignInfo, [kind |-> "BasicSignature", bytes |-> <<7, 9>>]}

(***************************************************************************)
(* The caller.  `last` is the record of the last completed call, `prev`    *)
(* the call before it; Idle means none.  A call is made when the caller is *)
(* idle, on an input drawn from the sets above, or right after one call,   *)
(* on that call's result.                                                  *)
(***************************************************************************)
Idle == [op |-> "none"]

None == [some |-> FALSE]

Some(v) == [some |-> TRUE, val |-> v]

IsIdle == last.op = "none" /\ prev.op = "none"

\* one call has completed, nothing before it
AfterOne(ops) == last.op \in ops /\ prev.op = "none"

Returned(op, arg, val) ==
    /\ last' = [op |-> op, arg |-> arg, val |-> val]
    /\ prev' = last

Init ==
    /\ last = Idle
    /\ prev = Idle
    /\ envelope = None
    /\ built = None

\* SuiKeyPair::from_bytes on a drawn buffer, or on what to_bytes returned
KeyPairFromBytes ==
    /\ \/ /\ IsIdle
          /\ \E bytes \in BufferInputs :
                Returned("SuiKeyPair::from_bytes", bytes, SuiKeyPair_from_bytes(bytes))
       \/ /\ AfterOne({"SuiKeyPair::to_bytes"})
          /\ Returned("SuiKeyPair::from_bytes", last.val, SuiKeyPair_from_bytes(last.val))
    /\ UNCHANGED <<envelope, built>>

\* SuiKeyPair::to_bytes
KeyPairToBytes ==
    /\ IsIdle
    /\ \E kp \in KeyPairInputs :
          Returned("SuiKeyPair::to_bytes", kp, SuiKeyPair_to_bytes(kp))
    /\ UNCHANGED <<envelope, built>>

\* SuiKeyPair::public
KeyPairPublic ==
    /\ IsIdle
    /\ \E kp \in KeyPairInputs :
          Returned("SuiKeyPair::public", kp, SuiKeyPair_public(kp))
    /\ UNCHANGED <<envelope, built>>

\* SuiAddress::from(&public_key) on a drawn public key, or on what public()
\* returned
AddressFromPublicKey ==
    /\ \/ /\ IsIdle
          /\ \E pk \in PublicKeyInputs :
                Returned("SuiAddress::from", pk, SuiAddress_from_public_key(pk))
       \/ /\ AfterOne({"SuiKeyPair::public"})
          /\ Returned("SuiAddress::from", last.val, SuiAddress_from_public_key(last.val))
    /\ UNCHANGED <<envelope, built>>

\* SuiAddress::new(b).to_hex_literal()
AddressToHexLiteral ==
    /\ IsIdle
    /\ \E b \in AddressInputs :
          Returned("SuiAddress::to_hex_literal", SuiAddress_new(b),
                   SuiAddress_to_hex_literal(SuiAddress_new(b)))
    /\ UNCHANGED <<envelope, built>>

\* SuiAddress::new(b).to_string()
AddressToString ==
    /\ IsIdle
    /\ \E b \in AddressInputs :
          Returned("SuiAddress::to_string", SuiAddress_new(b),
                   SuiAddress_to_string(SuiAddress_new(b)))
    /\ UNCHANGED <<envelope, built>>

\* format!("{}", SuiAddress::new(b))
AddressDisplay ==
    /\ IsIdle
    /\ \E b \in AddressInputs :
          Returned("SuiAddress::fmt", SuiAddress_new(b), SuiAddress_fmt(SuiAddress_new(b)))
    /\ UNCHANGED <<envelope, built>>

HexTextOps == {"SuiAddress::to_hex_literal", "SuiAddress::to_string", "SuiAddress::fmt"}

\* SuiAddress::from_str on a drawn text, or on the text an address was
\* rendered to
AddressFromStr ==
    /\ \/ /\ IsIdle
          /\ \E s \in TextInputs :
                Returned("SuiAddress::from_str", s, SuiAddress_from_str(s))
       \/ /\ AfterOne(HexTextOps)
          /\ Returned("SuiAddress::from_str", last.val, SuiAddress_from_str(last.val))
    /\ UNCHANGED <<envelope, built>>

\* TransactionData::new
TransactionDataNew ==
    /\ IsIdle
    /\ \E kind \in KindSamples, sender \in SenderSamples, gas_payment \in ObjectRefSamples,
          gas_budget \in GasAmounts, gas_price \in GasAmounts :
          Returned("TransactionData::new",
                   [kind |-> kind, sender |-> sender, gas_payment |-> gas_payment,
                    gas_budget |-> gas_budget, gas_price |-> gas_price],
                   TransactionData_new(kind, sender, gas_payment, gas_budget, gas_price))
    /\ UNCHANGED <<envelope, built>>

\* TransactionData::new_with_gas_coins
TransactionDataNewWithGasCoins ==
    /\ IsIdle
    /\ \E kind \in KindSamples, sender \in SenderSamples, gas_payment \in GasCoinLists,
          gas_budget \in GasAmounts, gas_price \in GasAmounts :
          Returned("TransactionData::new_with_gas_coins",
                   [kind |-> kind, sender |-> sender, gas_payment |-> gas_payment,
                    gas_budget |-> gas_budget, gas_price |-> gas_price],
                   TransactionData_new_with_gas_coins(kind, sender, gas_payment,
                                                      gas_budget, gas_price))
    /\ UNCHANGED <<envelope, built>>

\* SenderSignedData::digest, once or a second time
Digest ==
    /\ IsIdle \/ AfterOne({"SenderSignedData::digest"})
    /\ \E data \in SenderSignedDataInputs :
          Returned("SenderSignedData::digest", data, SenderSignedData_digest(data))
    /\ UNCHANGED <<envelope, built>>

\* Envelope::new_from_data_and_sig: the caller keeps the envelope
EnvelopeNew ==
    /\ IsIdle
    /\ \E data \in EnvelopeDataInputs, sig \in EnvelopeSigInputs :
          /\ envelope' = Some(Envelope_new_from_data_and_sig(data, sig))
          /\ built' = Some(<<data, sig>>)
          /\ Returned("Envelope::new_from_data_and_sig", <<data, sig>>, "envelope")

\* Envelope::data(&self)
EnvelopeData ==
    /\ IsIdle
    /\ envelope.some
    /\ Returned("Envelope::data", "self", Envelope_data(envelope.val))
    /\ UNCHANGED <<envelope, built>>

\* Envelope::auth_signature(&self)
EnvelopeAuthSignature ==
    /\ IsIdle
    /\ envelope.some
    /\ Returned("Envelope::auth_signature", "self", Envelope_auth_signature(envelope.val))
    /\ UNCHANGED <<envelope, built>>

\* Envelope::into_data(self): the envelope is moved out of
EnvelopeIntoData ==
    /\ IsIdle
    /\ envelope.some
    /\ Returned("Envelope::into_data", "self", Envelope_into_data(envelope.val))
    /\ envelope' = None
    /\ UNCHANGED built

\* Envelope::into_sig(self)
EnvelopeIntoSig ==
    /\ IsIdle
    /\ envelope.some
    /\ Returned("Envelope::into_sig", "self", Envelope_into_sig(envelope.val))
    /\ envelope' = None
    /\ UNCHANGED built

\* Envelope::into_data_and_sig(self)
EnvelopeIntoDataAndSig ==
    /\ IsIdle
    /\ envelope.some
    /\ Returned("Envelope::into_data_and_sig", "self",
                Envelope_into_data_and_sig(envelope.val))
    /\ envelope' = None
    /\ UNCHANGED built

\* Intent::new
IntentNew ==
    /\ IsIdle
    /\ \E scope \in IntentScopes : Returned("Intent::new", scope, Intent_new(scope))
    /\ UNCHANGED <<envelope, built>>

\* Intent::sui_app
IntentSuiApp ==
    /\ IsIdle
    /\ \E scope \in IntentScopes : Returned("Intent::sui_app", scope, Intent_sui_app(scope))
    /\ UNCHANGED <<envelope, built>>

\* Intent::with_version
IntentWithVersion ==
    /\ IsIdle
    /\ \E version \in VersionSamples, scope \in IntentScopes :
          Returned("Intent::with_version", [version |-> version, scope |-> scope],
                   Intent_with_version(version, scope))
    /\ UNCHANGED <<envelope, built>>

\* IntentMessage::new, on a TransactionData value
IntentMessageNew ==
    /\ IsIdle
    /\ \E intent \in IntentInputs, value \in DigestTxSamples :
          Returned("IntentMessage::new", [intent |-> intent, value |-> value],
                   IntentMessage_new(intent, value))
    /\ UNCHANGED <<envelope, built>>

\* the caller drops what was returned
Return ==
    /\ last.op # "none"
    /\ last' = Idle
    /\ prev' = Idle
    /\ UNCHANGED <<envelope, built>>

Next ==
    \/ KeyPairFromBytes
    \/ KeyPairToBytes
    \/ KeyPairPublic
    \/ AddressFromPublicKey
    \/ AddressToHexLiteral
    \/ AddressToString
    \/ AddressDisplay
    \/ AddressFromStr
    \/ TransactionDataNew
    \/ TransactionDataNewWithGasCoins
    \/ Digest
    \/ EnvelopeNew
    \/ EnvelopeData
    \/ EnvelopeAuthSignature
    \/ EnvelopeIntoData
    \/ EnvelopeIntoSig
    \/ EnvelopeIntoDataAndSig
    \/ IntentNew
    \/ IntentSuiApp
    \/ IntentWithVersion
    \/ IntentMessageNew
    \/ Return

Spec == Init /\ [][Next]_vars

(***************************************************************************)
(* Properties.                                                             *)
(***************************************************************************)
LowerHexDigits ==
    {"0", "1", "2", "3", "4", "5", "6", "7", "8", "9", "a", "b", "c", "d", "e", "f"}

UpperHexLetters == {"A", "B", "C", "D", "E", "F"}

\* the value of a hex digit, read off its place in the alphabet
DigitValue(c) ==
    LET lower == <<"0", "1", "2", "3", "4", "5", "6", "7", "8", "9",
                   "a", "b", "c", "d", "e", "f">>
        upper == <<"0", "1", "2", "3", "4", "5", "6", "7", "8", "9",
                   "A", "B", "C", "D", "E", "F">>
    IN  (CHOOSE i \in 1..16 : lower[i] = c \/ upper[i] = c) - 1

\* C1: SenderSignedData::digest() is a deterministic function of the content
\* that is sensitive to it: two calls on identical data return the identical
\* 32-byte digest, and two calls on data that differ in any field return
\* different digests.
C1_DigestDeterministicAndSensitive ==
    (last.op = "SenderSignedData::digest" /\ prev.op = "SenderSignedData::digest") =>
        /\ Len(last.val) = 32
        /\ (last.arg = prev.arg) => (last.val = prev.val)
        /\ (last.arg # prev.arg) => (last.val # prev.val)

\* C2: SuiKeyPair::from_bytes fails when the buffer has a recognized flag byte
\* but fewer key bytes after it than the scheme requires (32 for Ed25519, 33
\* for Secp256k1 and Secp256r1); a buffer holding only a valid flag byte is
\* rejected.
C2_TruncatedKeyRejected ==
    (/\ last.op = "SuiKeyPair::from_bytes"
     /\ Len(last.arg) >= 1
     /\ last.arg[1] \in {0, 1, 2}
     /\ Len(last.arg) - 1 < (IF last.arg[1] = 0 THEN 32 ELSE 33)) =>
        ~last.val.ok

\* C3: from_bytes(kp.to_bytes()) succeeds and returns a key pair of the same
\* scheme with the same raw key bytes, for every key pair of the three
\* schemes; to_bytes is the scheme's flag byte followed by the raw bytes, with
\* no length prefix.
C3_KeyPairRoundTrip ==
    /\ (last.op = "SuiKeyPair::to_bytes") =>
          /\ Len(last.val) = 1 + Len(last.arg.kp)
          /\ last.val[1] = (CASE last.arg.variant = "Ed25519" -> 0
                              [] last.arg.variant = "Secp256k1" -> 1
                              [] last.arg.variant = "Secp256r1" -> 2)
          /\ \A i \in 1..Len(last.arg.kp) : last.val[i + 1] = last.arg.kp[i]
    /\ (last.op = "SuiKeyPair::from_bytes" /\ prev.op = "SuiKeyPair::to_bytes") =>
          /\ last.arg = prev.val
          /\ last.val.ok
          /\ last.val.val.variant = prev.arg.variant
          /\ last.val.val.kp = prev.arg.kp

\* C3's case: a 33-byte Secp256r1 key, all bytes different, went through
\* to_bytes and from_bytes and came back.
C3_Witness ==
    /\ last.op = "SuiKeyPair::from_bytes"
    /\ prev.op = "SuiKeyPair::to_bytes"
    /\ prev.arg.variant = "Secp256r1"
    /\ Len(prev.arg.kp) = 33
    /\ prev.arg.kp[1] # prev.arg.kp[33]
    /\ last.val.ok
    /\ last.val.val = prev.arg

\* C4: SuiKeyPair::from_bytes returns an error on the empty buffer and on every
\* buffer whose first byte is not 0x00, 0x01 or 0x02, whatever bytes follow;
\* no key pair value is produced.
C4_UnknownFlagRejected ==
    (/\ last.op = "SuiKeyPair::from_bytes"
     /\ (Len(last.arg) = 0 \/ last.arg[1] \notin {0, 1, 2})) =>
        /\ ~last.val.ok
        /\ "val" \notin DOMAIN last.val

\* C4's case: a buffer with the unknown flag 3 and 32 key bytes was refused.
C4_Witness ==
    /\ last.op = "SuiKeyPair::from_bytes"
    /\ Len(last.arg) = 33
    /\ last.arg[1] = 3
    /\ ~last.val.ok

\* C5: for every 32-byte array b, parsing the hex text of the address built
\* from b gives back that address.
C5_AddressHexRoundTrip ==
    (last.op = "SuiAddress::from_str" /\ prev.op = "SuiAddress::to_hex_literal") =>
        /\ last.arg = prev.val
        /\ last.val = Ok(prev.arg)

\* C5's case: an address with bytes above and below 16 was rendered and parsed
\* back.
C5_Witness ==
    /\ last.op = "SuiAddress::from_str"
    /\ prev.op = "SuiAddress::to_hex_literal"
    /\ prev.arg[1] = 240
    /\ prev.arg[32] = 15
    /\ last.val.ok
    /\ last.val.val = prev.arg

\* C6: SuiAddress::from_str, after stripping one optional leading "0x", returns
\* an error and no address for every input that contains a non-hex character
\* or whose hex decodes to a byte length other than 32, and the decoded
\* 32-byte address otherwise.
C6_FromStrRejectsMalformed ==
    (last.op = "SuiAddress::from_str") =>
        LET s == last.arg
            t == IF Len(s) >= 2 /\ SubSeq(s, 1, 2) = <<"0", "x">>
                 THEN SubSeq(s, 3, Len(s)) ELSE s
            wellFormed ==
                /\ \A i \in 1..Len(t) : t[i] \in LowerHexDigits \cup UpperHexLetters
                /\ Len(t) = 2 * 32
        IN  IF wellFormed
            THEN /\ last.val.ok
                 /\ Len(last.val.val) = 32
                 /\ \A i \in 1..32 : last.val.val[i] =
                        16 * DigitValue(t[2 * i - 1]) + DigitValue(t[2 * i])
            ELSE /\ ~last.val.ok
                 /\ "val" \notin DOMAIN last.val

\* C6's case: a text with the prefix and 66 hex digits, one byte too many, was
\* refused.
C6_Witness ==
    /\ last.op = "SuiAddress::from_str"
    /\ prev.op = "none"
    /\ Len(last.arg) = 68
    /\ SubSeq(last.arg, 1, 2) = <<"0", "x">>
    /\ \A i \in 3..68 : last.arg[i] \in LowerHexDigits \cup UpperHexLetters
    /\ ~last.val.ok

\* C7: the address derived from a public key is the first 32 bytes of the
\* key's raw bytes when the raw length is at least 32 (the 33rd byte of a
\* Secp256k1 or Secp256r1 key is dropped), and the raw bytes zero-padded on
\* the right to 32 bytes when the raw length is below 32.
C7_AddressFromPublicKey ==
    (last.op = "SuiAddress::from") =>
        LET raw == last.arg.bytes
        IN  /\ Len(last.val) = 32
            /\ Len(raw) >= 32 => last.val = SubSeq(raw, 1, 32)
            /\ Len(raw) < 32 => last.val = raw \o [i \in 1..(32 - Len(raw)) |-> 0]

\* C7's case: a Secp256k1 key whose only non-zero byte is the 33rd derived the
\* zero address.
C7_Witness ==
    /\ last.op = "SuiAddress::from"
    /\ last.arg.variant = "Secp256k1"
    /\ Len(last.arg.bytes) = 33
    /\ last.arg.bytes[33] = 255
    /\ last.val = [i \in 1..32 |-> 0]

\* C8: Envelope::new_from_data_and_sig(d, s).into_data_and_sig() == (d, s);
\* after any sequence of data() and auth_signature() both fields of the
\* envelope still equal the values it was constructed with; into_data returns
\* d and into_sig returns s.
C8_EnvelopeRoundTrip ==
    /\ envelope.some =>
          /\ built.some
          /\ envelope.val.data = built.val[1]
          /\ envelope.val.auth_signature = built.val[2]
    /\ last.op = "Envelope::into_data_and_sig" => last.val = built.val
    /\ last.op = "Envelope::into_data" => last.val = built.val[1]
    /\ last.op = "Envelope::into_sig" => last.val = built.val[2]
    /\ last.op = "Envelope::data" => last.val = built.val[1]
    /\ last.op = "Envelope::auth_signature" => last.val = built.val[2]

\* C8's case: an envelope built with a signature as its auth info was taken
\* apart by into_data_and_sig.
C8_Witness ==
    /\ last.op = "Envelope::into_data_and_sig"
    /\ built.some
    /\ built.val[2].kind = "BasicSignature"
    /\ last.val = built.val
    /\ ~envelope.some

\* C9: TransactionData::new returns gas_data.owner == sender, gas_data.payment
\* the one-element list holding the given ObjectRef, gas_data.budget and
\* gas_data.price the given budget and price (not swapped), kind and sender
\* unchanged and expiration None; new_with_gas_coins likewise yields
\* gas_data.owner == sender.
C9_TransactionDataNew ==
    /\ last.op = "TransactionData::new" =>
          /\ last.val.gas_data.owner = last.arg.sender
          /\ last.val.gas_data.payment = <<last.arg.gas_payment>>
          /\ last.val.gas_data.budget = last.arg.gas_budget
          /\ last.val.gas_data.price = last.arg.gas_price
          /\ last.val.kind = last.arg.kind
          /\ last.val.sender = last.arg.sender
          /\ last.val.expiration = [variant |-> "None"]
    /\ last.op = "TransactionData::new_with_gas_coins" =>
          last.val.gas_data.owner = last.arg.sender

\* C9's case: the end-to-end scenario's transaction, sender 0xAA..AA, budget
\* 1000 and price 1.
C9_Witness ==
    /\ last.op = "TransactionData::new"
    /\ last.arg.sender = [i \in 1..32 |-> 170]
    /\ last.arg.gas_budget = 1000
    /\ last.arg.gas_price = 1
    /\ last.val.gas_data.budget = 1000
    /\ last.val.gas_data.price = 1
    /\ last.val.gas_data.owner = last.arg.sender

\* C10: to_hex_literal, Display and to_string return exactly "0x" followed by
\* 64 lowercase hex characters, a string of length 66.
C10_HexLiteralShape ==
    (last.op \in {"SuiAddress::to_hex_literal", "SuiAddress::to_string", "SuiAddress::fmt"}) =>
        /\ Len(last.val) = 66
        /\ last.val[1] = "0"
        /\ last.val[2] = "x"
        /\ \A i \in 3..66 : last.val[i] \in LowerHexDigits

\* C10's case: Display of the address of 32 bytes 0xAA is 0x and 64 times "a".
C10_Witness ==
    /\ last.op = "SuiAddress::fmt"
    /\ last.arg = [i \in 1..32 |-> 170]
    /\ last.val = <<"0", "x">> \o [i \in 1..64 |-> "a"]

\* C11: Intent::sui_app(scope) and Intent::new(scope) return an intent with
\* version 0 and the given scope; Intent::with_version(v, scope) returns an
\* intent with exactly version v and that scope; IntentMessage::new(intent,
\* value) keeps both intent and value unchanged.
C11_IntentConstructors ==
    /\ last.op \in {"Intent::new", "Intent::sui_app"} =>
          /\ last.val.version = 0
          /\ last.val.scope = last.arg
    /\ last.op = "Intent::with_version" =>
          /\ last.val.version = last.arg.version
          /\ last.val.scope = last.arg.scope
    /\ last.op = "IntentMessage::new" =>
          /\ last.val.intent = last.arg.intent
          /\ last.val.value = last.arg.value

\* C11's case: sui_app was given the scope ProofOfPossession and returned it
\* with version 0.
C11_Witness ==
    /\ last.op = "Intent::sui_app"
    /\ last.arg = "ProofOfPossession"
    /\ last.val = [version |-> 0, scope |-> "ProofOfPossession"]

\* C12: for every key pair, public() returns a public key of the key pair's
\* scheme whose raw bytes are all zero, whatever the private-key bytes; the
\* address derived from kp.public() is SuiAddress::ZERO for every key pair, so
\* any two key pairs derive the same address.
C12_PublicKeyIsZero ==
    /\ last.op = "SuiKeyPair::public" =>
          /\ last.val.variant = last.arg.variant
          /\ Len(last.val.bytes) = (IF last.arg.variant = "Ed25519" THEN 32 ELSE 33)
          /\ \A i \in 1..Len(last.val.bytes) : last.val.bytes[i] = 0
    /\ (last.op = "SuiAddress::from" /\ prev.op = "SuiKeyPair::public") =>
          /\ last.arg = prev.val
          /\ last.val = [i \in 1..32 |-> 0]

\* C12's case: a Secp256r1 key pair of 33 non-zero private-key bytes gave its
\* public key, and the address derived from it is the zero address.
C12_Witness ==
    /\ last.op = "SuiAddress::from"
    /\ prev.op = "SuiKeyPair::public"
    /\ prev.arg.variant = "Secp256r1"
    /\ Len(prev.arg.kp) = 33
    /\ \A i \in 1..33 : prev.arg.kp[i] # 0
    /\ prev.val.variant = "Secp256r1"
    /\ last.val = [i \in 1..32 |-> 0]

====
